---- MODULE Spec2Model ----
(***************************************************************************)
(* VoxelGenerator.py: stl_to_voxel (mesh -> boolean occupancy grid) and    *)
(* point_near_triangle (the occupancy predicate).                          *)
(*                                                                         *)
(* Numbers.  Vertex coordinates are integers.  voxel_size = dims /         *)
(* resolution is kept as the fraction <<dims[a], resolution>>, with the    *)
(* IEEE meaning of a zero denominator (x/0 = inf, 0/0 = nan).  World-space *)
(* points handed to point_near_triangle inside the loop are written in     *)
(* units of 1/(2*resolution), which makes every voxel centre an integer    *)
(* triple; distances are compared through their squares.  Arithmetic is    *)
(* exact (no rounding): on the inputs enumerated below the float32         *)
(* results of floor, ceil and the distance test coincide with the exact    *)
(* ones.                                                                   *)
(***************************************************************************)
EXTENDS Integers, Sequences, FiniteSets, TLC

\* ------------------------------------------------------------------ bounds
NumPoints     == 5     \* vertices drawn from the first NumPoints of PointPool
MaxTriangles  == 2     \* triangles in a mesh: 0..MaxTriangles
MaxResolution == 3     \* resolution argument: -1..MaxResolution
CoordMax      == 2     \* coordinates of the point of a direct predicate call
MaxThreshold  == 1     \* threshold of a direct predicate call: 0..MaxThreshold

\* Outcomes of casting a non-finite float to int (astype(int), lines 41-42).
\* The int64 extremes are represented by the extremes of TLC's 32-bit
\* integers: they are only ever compared with grid indices.
IntMin == -2147483647
IntMax == 2147483647

Axes == 1..3     \* x, y, z

PointPool ==
  << <<0,0,0>>, <<1,0,0>>, <<0,1,0>>, <<1,1,1>>, <<2,1,1>>, <<0,2,2>> >>

PoolSize == IF NumPoints < Len(PointPool) THEN NumPoints ELSE Len(PointPool)

\* Triangles: three distinct pool vertices.  The code uses a triangle's
\* vertices only through min, max and the minimum distance, so the vertices
\* are listed in pool order.
Triangles ==
  { <<PointPool[x[1]], PointPool[x[2]], PointPool[x[3]]>> :
      x \in { y \in (1..PoolSize) \X (1..PoolSize) \X (1..PoolSize) :
                y[1] < y[2] /\ y[2] < y[3] } }

Meshes == UNION { [1..n -> Triangles] : n \in 0..MaxTriangles }

Resolutions == (0 - 1)..MaxResolution

Coords == 0..CoordMax

\* ---------------------------------------------------------------- helpers
\* a 3-vector (a numpy array of shape (3,)) given component by component
Vec3(F(_)) == <<F(1), F(2), F(3)>>

SetMin(S) == CHOOSE x \in S : \A y \in S : x <= y
SetMax(S) == CHOOSE x \in S : \A y \in S : y <= x

\* floor and ceil of the rational p/q, q > 0
Floor(p, q) == p \div q
Ceil(p, q)  == 0 - ((0 - p) \div q)

\* mutant: only the first triangle's vertices are collected
all_points_first(vectors) == Vec3(LAMBDA n : vectors[1][n])

\* stl_mesh.vectors.reshape(-1, 3): every vertex of every triangle
all_points(vectors) ==
  [n \in 1..(3 * Len(vectors)) |-> vectors[((n - 1) \div 3) + 1][((n - 1) % 3) + 1]]

\* points.min(axis=0) / points.max(axis=0) of a non-empty sequence of points
np_min(points) == Vec3(LAMBDA a : SetMin({ points[n][a] : n \in DOMAIN points }))
np_max(points) == Vec3(LAMBDA a : SetMax({ points[n][a] : n \in DOMAIN points }))

\* np.zeros((resolution,)*3, dtype=bool); resolution >= 0
Cells(res) == (0..(res - 1)) \X (0..(res - 1)) \X (0..(res - 1))
\* mutant: the grid starts out all true
np_ones(res) == [c \in Cells(res) |-> TRUE]

np_zeros(res) == [c \in Cells(res) |-> FALSE]

\* Is x / vs finite, for a finite x >= 0?  vs = <<num, den>> stands for
\* num/den with num >= 0:
\*   den = 0, num > 0 : vs = inf, x/inf = 0          (finite)
\*   den = 0, num = 0 : vs = nan, x/nan = nan
\*   den # 0, num = 0 : vs = 0,   x/0 = nan or inf
Finite(vs) == vs[1] # 0

\* np.floor(x / vs).astype(int), np.ceil(x / vs).astype(int);
\* ub is the outcome of the cast when the quotient is not finite.
floor_astype(x, vs, ub) ==
  IF ~Finite(vs) THEN ub
  ELSE IF vs[2] = 0 THEN 0
  ELSE Floor(x * vs[2], vs[1])

ceil_astype(x, vs, ub) ==
  IF ~Finite(vs) THEN ub
  ELSE IF vs[2] = 0 THEN 0
  ELSE Ceil(x * vs[2], vs[1])

\* ------------------------------------------------- point_near_triangle
SqNorm(u) == u[1] * u[1] + u[2] * u[2] + u[3] * u[3]

\* np.linalg.norm(triangle - point, axis=1), squared
distances(point, triangle) ==
  Vec3(LAMBDA v : SqNorm(Vec3(LAMBDA a : triangle[v][a] - point[a])))

\* mutant: <= in place of <
less_equal(d2, bound) == bound >= 0 /\ d2 <= bound * bound

\* distances.min() < threshold * 2
less_than(d2, bound) == bound > 0 /\ d2 < bound * bound

point_near_triangle(point, triangle, threshold) ==
  LET d == distances(point, triangle)
  IN  less_than(SetMin({d[1], d[2], d[3]}), threshold * 2)

\* ------------------------------------------------------- the loop body
\* dims / resolution
voxel_size_of(mn, mx, res) == Vec3(LAMBDA a : <<mx[a] - mn[a], res>>)

\* lines 37, 41, 45
voxel_min_of(triangle, mn, vs, ub) ==
  Vec3(LAMBDA a :
     LET f == floor_astype(np_min(triangle)[a] - mn[a], vs[a], ub)
     IN  IF f > 0 THEN f ELSE 0)

\* mutant: the upper end is clamped to resolution, not resolution - 1
voxel_max_off_by_one(triangle, mn, vs, res, ub) ==
  Vec3(LAMBDA a :
     LET c == ceil_astype(np_max(triangle)[a] - mn[a], vs[a], ub)
     IN  IF c < res THEN c ELSE res)

\* lines 38, 42, 46
voxel_max_of(triangle, mn, vs, res, ub) ==
  Vec3(LAMBDA a :
     LET c == ceil_astype(np_max(triangle)[a] - mn[a], vs[a], ub)
     IN  IF c < res - 1 THEN c ELSE res - 1)

\* mutant: range(lo, hi), the upper end left out
index_range_exclusive(lo, hi) ==
  (lo[1]..(hi[1] - 1)) \X (lo[2]..(hi[2] - 1)) \X (lo[3]..(hi[3] - 1))

\* the indices enumerated by the three nested range(lo, hi + 1) loops
index_range(lo, hi) == (lo[1]..hi[1]) \X (lo[2]..hi[2]) \X (lo[3]..hi[3])

\* World coordinates in units of 1/(2*resolution) (resolution >= 1).
Unit(vs) == 2 * vs[1][2]
World(p, vs) == Vec3(LAMBDA a : Unit(vs) * p[a])
WorldTriangle(triangle, vs) == Vec3(LAMBDA v : World(triangle[v], vs))

\* min_coords + [i,j,k] * voxel_size + voxel_size / 2, in those units
voxel_center(idx, mn, vs) ==
  Vec3(LAMBDA a : Unit(vs) * mn[a] + idx[a] * 2 * vs[a][1] + vs[a][1])

\* voxel_size.max(), in those units
voxel_size_max(vs) == 2 * SetMax({ vs[a][1] : a \in Axes })

\* mutant: voxel_grid[i,j,k] = point_near_triangle(...), an unconditional store
store_assign(near) == {near}

\* lines 57-58: the values stored into voxel_grid[i,j,k] for one cell
store(near) == IF near THEN {TRUE} ELSE {}

\* lines 53-58 for the cell c: centre, predicate, conditional store
probe(c, triangle, mn, vs) ==
  LET voxel_center_c == voxel_center(c, mn, vs)
      threshold      == voxel_size_max(vs)
      near == point_near_triangle(voxel_center_c, WorldTriangle(triangle, vs),
                                  threshold)
  IN  [ index     |-> c,
        center    |-> voxel_center_c,
        threshold |-> threshold,
        near      |-> near,
        stored    |-> store(near) ]

\* lines 37-58 for one triangle: one record per enumerated cell
probe_cells(triangle, mn, vs, res, ubmin, ubmax) ==
  { probe(c, triangle, mn, vs) :
      c \in index_range(voxel_min_of(triangle, mn, vs, ubmin),
                        voxel_max_of(triangle, mn, vs, res, ubmax)) }

\* the indices at which the value b was stored
stored_at(P, b) == { p.index : p \in { q \in P : b \in q.stored } }

\* mutant: the grid is rebuilt for every triangle, earlier marks are lost
fill_fresh(grid, P) ==
  [c \in DOMAIN grid |-> c \in stored_at(P, TRUE)]

\* the grid after the stores of one triangle
fill(grid, P) ==
  LET set_true  == stored_at(P, TRUE)
      set_false == stored_at(P, FALSE)
  IN  [c \in DOMAIN grid |->
         IF c \in set_true THEN TRUE
         ELSE IF c \in set_false THEN FALSE
         ELSE grid[c]]

\* The outcomes of astype(int) on the quotients by vs: a cast of nan or inf
\* is undefined (INT64_MIN on x86-64, 0 or INT64_MAX on AArch64).
cast_outcomes(vs) ==
  IF \E a \in Axes : ~Finite(vs[a]) THEN {IntMin, 0, IntMax} ELSE {0}

\* lines 35-58 over the first n triangles of vectors
RECURSIVE triangle_loop(_, _, _, _, _, _)
triangle_loop(grid, vectors, n, mn, vs, res) ==
  IF n = 0 THEN grid
  ELSE fill(triangle_loop(grid, vectors, n - 1, mn, vs, res),
            probe_cells(vectors[n], mn, vs, res, 0, 0))

\* lines 23-60 on an input where no cast is undefined: the returned grid
stl_to_voxel(vectors, res) ==
  LET mn == np_min(all_points(vectors))
      mx == np_max(all_points(vectors))
  IN  triangle_loop(np_zeros(res), vectors, Len(vectors),
                    mn, voxel_size_of(mn, mx, res), res)

\* ------------------------------------------------------------------ state
VARIABLES
  pc,          \* position: "bounds", "alloc", "loop", "done", "raised"
               \*           (stl_to_voxel); "call", "returned" (predicate)
  stl_mesh,    \* stl_mesh.vectors, the loaded triangles
  resolution,
  min_coords, max_coords, voxel_size, voxel_grid,
  t,           \* index of the next triangle of the for loop
  probes,      \* the cells enumerated by the latest loop iteration
  result,      \* what stl_to_voxel returned or raised
  pnt          \* a direct call of point_near_triangle: arguments and result

vars == <<pc, stl_mesh, resolution, min_coords, max_coords, voxel_size,
          voxel_grid, t, probes, result, pnt>>

NoResult == [kind |-> "none", voxel_grid |-> <<>>, bounds |-> <<>>, line |-> 0]
NoCall   == [point |-> <<0, 0, 0>>, triangle |-> <<>>, threshold |-> 0,
             result |-> FALSE]

Init ==
  /\ min_coords = <<>> /\ max_coords = <<>> /\ voxel_size = <<>>
  /\ voxel_grid = <<>> /\ t = 0 /\ probes = {} /\ result = NoResult
  /\ \/ /\ pc = "bounds"
        /\ stl_mesh \in Meshes
        /\ resolution \in Resolutions
        /\ pnt = NoCall
     \/ /\ pc = "call"
        /\ stl_mesh = <<>>
        /\ resolution = 0
        /\ pnt \in [point : Coords \X Coords \X Coords, triangle : Triangles,
                    threshold : 0..MaxThreshold, result : {FALSE}]

\* mutant: an empty mesh gets the origin as its bounds and goes on
ComputeBounds_unchecked ==
  /\ pc = "bounds"
  /\ pc' = "alloc"
  /\ min_coords' = IF Len(stl_mesh) = 0 THEN <<0, 0, 0>>
                   ELSE np_min(all_points(stl_mesh))
  /\ max_coords' = IF Len(stl_mesh) = 0 THEN <<0, 0, 0>>
                   ELSE np_max(all_points(stl_mesh))
  /\ UNCHANGED <<stl_mesh, resolution, voxel_size, voxel_grid, t, probes,
                 result, pnt>>

\* lines 23-25; min() of an empty array raises ValueError
ComputeBounds ==
  /\ pc = "bounds"
  /\ IF Len(stl_mesh) = 0
     THEN /\ pc' = "raised"
          /\ result' = [NoResult EXCEPT !.kind = "ValueError", !.line = 24]
          /\ UNCHANGED <<min_coords, max_coords>>
     ELSE /\ pc' = "alloc"
          /\ min_coords' = np_min(all_points(stl_mesh))
          /\ max_coords' = np_max(all_points(stl_mesh))
          /\ UNCHANGED result
  /\ UNCHANGED <<stl_mesh, resolution, voxel_size, voxel_grid, t, probes, pnt>>

\* lines 28-32; np.zeros raises ValueError on a negative dimension
AllocateGrid ==
  /\ pc = "alloc"
  /\ voxel_size' = voxel_size_of(min_coords, max_coords, resolution)
  /\ IF resolution < 0
     THEN /\ pc' = "raised"
          /\ result' = [NoResult EXCEPT !.kind = "ValueError", !.line = 32]
          /\ UNCHANGED <<voxel_grid, t>>
     ELSE /\ pc' = "loop"
          /\ voxel_grid' = np_zeros(resolution)
          /\ t' = 1
          /\ UNCHANGED result
  /\ UNCHANGED <<stl_mesh, resolution, min_coords, max_coords, probes, pnt>>

\* lines 35-58: one iteration of the for loop over the triangles
RasterizeTriangle ==
  /\ pc = "loop"
  /\ t <= Len(stl_mesh)
  /\ \E ubmin \in cast_outcomes(voxel_size), ubmax \in cast_outcomes(voxel_size) :
       /\ probes' = probe_cells(stl_mesh[t], min_coords, voxel_size,
                                resolution, ubmin, ubmax)
       /\ voxel_grid' = fill(voxel_grid, probes')
  /\ t' = t + 1
  /\ UNCHANGED <<pc, stl_mesh, resolution, min_coords, max_coords, voxel_size,
                 result, pnt>>

\* line 60
Return ==
  /\ pc = "loop"
  /\ t > Len(stl_mesh)
  /\ pc' = "done"
  /\ result' = [kind |-> "value", voxel_grid |-> voxel_grid,
                bounds |-> <<min_coords, max_coords>>, line |-> 60]
  /\ UNCHANGED <<stl_mesh, resolution, min_coords, max_coords, voxel_size,
                 voxel_grid, t, probes, pnt>>

\* lines 62-68, called directly
CallPointNearTriangle ==
  /\ pc = "call"
  /\ pc' = "returned"
  /\ pnt' = [pnt EXCEPT !.result =
               point_near_triangle(pnt.point, pnt.triangle, pnt.threshold)]
  /\ UNCHANGED <<stl_mesh, resolution, min_coords, max_coords, voxel_size,
                 voxel_grid, t, probes, result>>

Next ==
  \/ ComputeBounds
  \/ AllocateGrid
  \/ RasterizeTriangle
  \/ Return
  \/ CallPointNearTriangle

Spec == Init /\ [][Next]_vars

\* ----------------------------------------------------------- properties
InStlToVoxel == pc \in {"bounds", "alloc", "loop", "done", "raised"}

Extent(vectors, a) ==
  LET S == { vectors[n][v][a] : n \in 1..Len(vectors), v \in 1..3 }
  IN  SetMax(S) - SetMin(S)

\* a valid input: a non-empty mesh with positive extent on every axis and
\* resolution >= 1
ValidInput ==
  /\ InStlToVoxel
  /\ Len(stl_mesh) > 0
  /\ resolution >= 1
  /\ \A a \in Axes : Extent(stl_mesh, a) > 0

InBox(c, lo, hi) == \A a \in Axes : lo[a] <= c[a] /\ c[a] <= hi[a]

\* the probes of triangle n of the mesh, under the bounds of the run
ProbesOf(n) ==
  probe_cells(stl_mesh[n], min_coords, voxel_size, resolution, 0, 0)

\* C1: on a valid input, rasterizing any permutation of the mesh's
\* triangles returns the grid the original order returns, cell for cell.
C1_PermutationInvariant ==
  (pc = "done" /\ ValidInput) =>
    \A p \in Permutations(1..Len(stl_mesh)) :
      stl_to_voxel([n \in 1..Len(stl_mesh) |-> stl_mesh[p[n]]], resolution)
        = result.voxel_grid

\* a finished run on two triangles that disagree on a cell both enumerate
C1_Witness ==
  /\ pc = "done" /\ ValidInput /\ Len(stl_mesh) = 2
  /\ \E p \in ProbesOf(1), q \in ProbesOf(2) :
       p.index = q.index /\ p.near # q.near

\* C2 (as claimed): with resolution 0 or -1 the call fails before the grid
\* is allocated and before any triangle is rasterized; no grid is returned.
C2_InvalidResolutionRejected ==
  (InStlToVoxel /\ Len(stl_mesh) > 0 /\ resolution \in {0, 0 - 1}
     /\ \A a \in Axes : Extent(stl_mesh, a) > 0) =>
    /\ pc \notin {"loop", "done"}
    /\ result.kind # "value"

\* C3 (as claimed): a mesh with zero extent on some axis fails before grid
\* allocation and rasterization; no grid is returned.
C3_DegenerateBoundsRejected ==
  (InStlToVoxel /\ Len(stl_mesh) > 0 /\ resolution >= 1
     /\ \E a \in Axes : Extent(stl_mesh, a) = 0) =>
    /\ pc \notin {"loop", "done"}
    /\ result.kind # "value"

\* C4: on a mesh of zero triangles the call raises at the bounds
\* computation (line 24): the grid is never allocated, and neither a grid
\* nor bounds are returned.
C4_EmptyMeshRaises ==
  (InStlToVoxel /\ Len(stl_mesh) = 0) =>
    /\ pc \in {"bounds", "raised"}
    /\ pc = "raised" => (result.kind = "ValueError" /\ result.line = 24)
    /\ voxel_grid = <<>> /\ voxel_size = <<>>
    /\ result.voxel_grid = <<>> /\ result.bounds = <<>>

C4_Witness ==
  pc = "raised" /\ Len(stl_mesh) = 0 /\ result.kind = "ValueError"

\* C5: on a valid input the grid has shape resolution^3, every cell is
\* false when the triangle loop starts, and the returned grid has exactly
\* resolution^3 cells.
C5_GridShapeAndZeroInit ==
  ValidInput =>
    /\ pc \in {"loop", "done"} =>
         /\ DOMAIN voxel_grid =
              { <<i, j, k>> : i \in 0..(resolution - 1),
                              j \in 0..(resolution - 1),
                              k \in 0..(resolution - 1) }
         /\ Cardinality(DOMAIN voxel_grid) = resolution * resolution * resolution
    /\ (pc = "loop" /\ t = 1) => \A c \in DOMAIN voxel_grid : voxel_grid[c] = FALSE
    /\ pc = "done" =>
         Cardinality(DOMAIN result.voxel_grid) = resolution * resolution * resolution

C5_Witness ==
  /\ ValidInput /\ pc = "loop" /\ t = 1 /\ resolution >= 2
  /\ Cardinality(DOMAIN voxel_grid) = 8

Contains(mn, mx, vectors) ==
  \A n \in 1..Len(vectors) : \A v \in 1..3 : \A a \in Axes :
    mn[a] <= vectors[n][v][a] /\ vectors[n][v][a] <= mx[a]

\* C6: once computed, the bounds contain every vertex on every axis; no
\* loop iteration changes them; the returned bounds are those values.
C6_BoundsContainAndStable ==
  [][ /\ pc' \in {"alloc", "loop", "done"} =>
             Contains(min_coords', max_coords', stl_mesh')
      /\ pc \in {"alloc", "loop"} =>
             (min_coords' = min_coords /\ max_coords' = max_coords)
      /\ pc' = "done" =>
             /\ result'.bounds = <<min_coords, max_coords>>
             /\ Contains(result'.bounds[1], result'.bounds[2], stl_mesh') ]_vars

\* returned bounds that are not the bounding box of the first triangle alone
C6_Witness ==
  /\ pc = "done" /\ ValidInput /\ Len(stl_mesh) = 2
  /\ result.bounds # <<np_min(stl_mesh[1]), np_max(stl_mesh[1])>>
  /\ result.bounds[1] = min_coords

\* C7: on a valid input, a cell of the returned grid is true iff some
\* triangle has the cell in its clamped inclusive range [voxel_min,
\* voxel_max] and point_near_triangle holds for the cell's centre.
C7_CellTrueIffClaimed ==
  (pc = "done" /\ ValidInput) =>
    { c \in DOMAIN result.voxel_grid : result.voxel_grid[c] } =
      UNION { LET lo  == voxel_min_of(stl_mesh[n], min_coords, voxel_size, 0)
                  hi  == voxel_max_of(stl_mesh[n], min_coords, voxel_size,
                                      resolution, 0)
                  tri == WorldTriangle(stl_mesh[n], voxel_size)
              IN  { c \in DOMAIN result.voxel_grid :
                      /\ InBox(c, lo, hi)
                      /\ point_near_triangle(
                           voxel_center(c, min_coords, voxel_size), tri,
                           voxel_size_max(voxel_size)) } :
              n \in 1..Len(stl_mesh) }

\* a returned grid with a true cell, a cell enumerated but not near, and a
\* true cell on the upper end of a triangle's range
C7_Witness ==
  /\ pc = "done" /\ ValidInput
  /\ \E c \in DOMAIN result.voxel_grid : ~result.voxel_grid[c]
  /\ \E n \in 1..Len(stl_mesh) : \E p \in ProbesOf(n) :
       /\ p.near
       /\ \E a \in Axes :
            p.index[a] = voxel_max_of(stl_mesh[n], min_coords, voxel_size,
                                      resolution, 0)[a]
  /\ \E n \in 1..Len(stl_mesh) : \E p \in ProbesOf(n) :
       ~p.near /\ ~result.voxel_grid[p.index]

\* C8: in a loop iteration no true cell becomes false, every store writes
\* True, a cell changes only where True was stored, and storing True into
\* cells that are already true leaves the grid unchanged.
C8_GridMonotonic ==
  [][ (pc = "loop" /\ pc' = "loop") =>
        /\ DOMAIN voxel_grid' = DOMAIN voxel_grid
        /\ \A c \in DOMAIN voxel_grid : voxel_grid[c] => voxel_grid'[c]
        /\ \A p \in probes' : p.stored \subseteq {TRUE}
        /\ \A c \in DOMAIN voxel_grid :
             voxel_grid'[c] # voxel_grid[c] =>
               \E p \in probes' : p.index = c /\ p.stored = {TRUE}
        /\ (\A p \in probes' : p.stored # {} => voxel_grid[p.index])
             => voxel_grid' = voxel_grid ]_vars

\* the second triangle has stored True into a cell the first had marked, and
\* has enumerated, without storing, another cell the first had marked
C8_Witness ==
  /\ pc = "loop" /\ t = 3 /\ resolution >= 1
  /\ \E p \in probes, q \in ProbesOf(1) :
       p.index = q.index /\ q.near /\ p.stored = {TRUE}
  /\ \E p \in probes, q \in ProbesOf(1) :
       p.index = q.index /\ q.near /\ p.stored = {} /\ voxel_grid[p.index]

\* C9: every index at which a loop iteration touches voxel_grid lies in
\* 0..resolution-1 on every axis (a range whose lower end exceeds its upper
\* end enumerates nothing).
C9_IndicesInGrid ==
  \A p \in probes : \A a \in Axes :
    0 <= p.index[a] /\ p.index[a] <= resolution - 1

\* an iteration whose unclamped ceil is resolution on some axis and that
\* enumerated cells, after an iteration whose range was empty because its
\* lower end is resolution
C9_Witness ==
  /\ pc = "loop" /\ t = 3 /\ ValidInput
  /\ probes # {}
  /\ \E a \in Axes :
       ceil_astype(np_max(stl_mesh[2])[a] - min_coords[a], voxel_size[a], 0)
         = resolution
  /\ \E a \in Axes :
       voxel_min_of(stl_mesh[1], min_coords, voxel_size, 0)[a] = resolution
  /\ ProbesOf(1) = {}

\* some vertex of the triangle is at distance < 2T from the point
SomeVertexWithin(point, triangle, T) ==
  \E v \in 1..3 :
    (triangle[v][1] - point[1]) * (triangle[v][1] - point[1])
      + (triangle[v][2] - point[2]) * (triangle[v][2] - point[2])
      + (triangle[v][3] - point[3]) * (triangle[v][3] - point[3])
    < 4 * T * T

\* C10: point_near_triangle(P, triangle, T) is true iff the least distance
\* from P to a vertex is strictly below 2T; inside stl_to_voxel the T of
\* every call is the largest component of voxel_size.
C10_StrictlyWithinTwiceThreshold ==
  /\ pc = "returned" =>
       (pnt.result <=> SomeVertexWithin(pnt.point, pnt.triangle, pnt.threshold))
  /\ (pc = "loop" /\ t > 1) =>
       \A p \in probes :
         /\ p.near <=>
              SomeVertexWithin(p.center,
                               WorldTriangle(stl_mesh[t - 1], voxel_size),
                               p.threshold)
         \* p.threshold / Unit is the largest voxel_size[a] = num/den
         /\ \A a \in Axes :
              p.threshold * voxel_size[a][2] >= Unit(voxel_size) * voxel_size[a][1]
         /\ \E a \in Axes :
              p.threshold * voxel_size[a][2] = Unit(voxel_size) * voxel_size[a][1]

\* a direct call whose least distance is exactly 2T > 0, answered False
C10_Witness ==
  /\ pc = "returned" /\ pnt.threshold > 0 /\ pnt.result = FALSE
  /\ SetMin({ distances(pnt.point, pnt.triangle)[v] : v \in 1..3 })
       = 4 * pnt.threshold * pnt.threshold

====
